---- MODULE Spec2Model ----
(***************************************************************************)
(* A model of the xxrpc client (src/client/client.go): one Client, the     *)
(* goroutines that call Go / Call / Close / IsAvailable on it, its         *)
(* background reader (receive, terminateCalls) and the byte stream to the  *)
(* server.  The server is the environment of this part of the model: it    *)
(* answers request frames it was sent, in any order.                       *)
(***************************************************************************)
EXTENDS Integers, Sequences, FiniteSets, TLC

\* ------------------------------------------------------------------ bounds
MaxCalls == 2       \* Call objects created by Go / Call
MaxResp  == 2       \* response frames the server writes
MaxClose == 2       \* invocations of Client.Close
DoneCap  == 1       \* cap(done) of the caller-provided channel passed to Go
MaxReq   == 2       \* requests the peer sends on one server connection
MaxReg   == 3       \* concurrent calls of Server.Register
MaxMethods == 1     \* methods of a receiver type given to NewService
MaxDials == 2       \* concurrent calls of dialTimeout

Calls   == 1..MaxCalls
Reqs    == 1..MaxReq
Regs    == 1..MaxReg
Dials   == 1..MaxDials

\* The argument call c passes: every call passes a different value, so that a
\* reply can be told from the reply to any other call.
ArgVals(c) == {10 + c}

\* --------------------------------------------------------------- constants
CallDoneCap == 1    \* make(chan *Call, 1) in Client.Call
FirstSeq    == 1    \* seq: 1 in newClientCode; 0 means invalid call

Free   == 0         \* a mutex nobody holds
Reader == 0 - 1     \* the goroutine running receive()
Nil    == 0         \* the nil *Call

ErrClosed     == "connection is closed"
ErrConnClose  == "close error"      \* a non-nil error of conn.Close()
ErrCallFailed == "rpc client: call failed: context canceled"
ErrWrite      == "write error"
ErrEOF        == "EOF"
ErrBody       == "unexpected EOF"
ErrReadingBody == "reading body unexpected EOF"
ErrServer     == "server error"
NoErr         == ""
NotReturned   == "not returned"

\* The reply a remote method produces for argument a, and an untouched reply.
Method(a) == [of |-> a]
NoReply   == [of |-> 0]
InvalidRequest == [of |-> 0 - 1]

VARIABLES
    \* Client fields
    seq, pending, closing, shutdown,
    \* the two mutexes: who holds them
    sending, mu,
    \* Call objects and the goroutine that issued each of them
    cpc, ckind, cseq, cargs, creply, cerr, callRet,
    \* Done channels: chans[0] is the caller-provided one, chans[c] Call's own
    chans,
    \* the background reader
    rpc, rh, rcall, rerr, termTodo, termCur,
    \* the codec and the stream; codecCloses counts the c.cc.Close() calls
    \* Client.Close makes
    outbound, inbound, codecClosed, codecCloses,
    \* the environment's counters
    nresp, closeRets,
    \* history
    signals, outcome, assigned, termSnap, lateDrop,
    \* ---- one server connection (src/server/server.go) and its peer ----
    \* opt.HandleTimeout of the connection
    optHandleTimeout,
    \* Server.serviceMap
    serviceMap,
    \* the peer's senders (Client.send at frame granularity) and its hang-up
    qpc, qsm, cliSending, hangup,
    \* serveCode's read loop: position, the request being read, frames read
    lpc, lreq, lpos, buffered,
    \* handleRequest and its worker goroutine, per request; the WaitGroup
    req, hpc, wpc, wgCount,
    \* the two streams, the server's send mutex, the connection
    reqIn, respOut, srvSending, connClosed, serveClosed,
    \* the peer's decoder of responses (Client.receive at frame granularity)
    dpc, dh, rpos, got, torn,
    \* history: cc.Write calls per request, and those made after cc.Close()
    attempts, lateWrites,
    \* ---- Server.Register: per caller its position, receiver, the Service
    \* NewService built, and the error returned ----
    gpc, grcvr, gsvc, gret,
    \* ---- NewService on one receiver type: the type, the Service built ----
    mrcvr, msvc,
    \* ---- dialTimeout, per caller: its position, opt, the connection, the
    \* factory goroutine and its result, the values returned, and the case
    \* of the wait that was taken ----
    dialPc, dialOpt, dialConn, facPc, facRes, dialRet, dialVia

clientVars == <<seq, pending, closing, shutdown>>
callVars   == <<cpc, ckind, cseq, cargs, creply, cerr, callRet>>
readerVars == <<rpc, rh, rcall, rerr, termTodo, termCur>>
streamVars == <<outbound, inbound, codecClosed, codecCloses>>
envVars    == <<nresp, closeRets>>
histVars   == <<signals, outcome, assigned, termSnap, lateDrop>>
clientSide == <<clientVars, sending, mu, callVars, chans, readerVars,
                streamVars, envVars, histVars>>

senderVars  == <<qpc, qsm, cliSending, hangup>>
loopVars    == <<lpc, lreq, lpos, buffered>>
handlerVars == <<req, hpc, wpc, wgCount>>
wireVars    == <<reqIn, respOut, srvSending, connClosed, serveClosed>>
decoderVars == <<dpc, dh, rpos, got, torn>>
srvHistVars == <<attempts, lateWrites>>
connSide    == <<optHandleTimeout, senderVars, loopVars, handlerVars, wireVars,
                 decoderVars, srvHistVars>>
serverSide  == <<serviceMap, connSide>>
registrySide == <<gpc, grcvr, gsvc, gret>>
methodsSide == <<mrcvr, msvc>>
dialSide    == <<dialPc, dialOpt, dialConn, facPc, facRes, dialRet, dialVia>>

\* What the steps of the client model, and of the server model, leave alone.
offClient == <<serverSide, registrySide, methodsSide, dialSide>>
offServer == <<clientSide, registrySide, methodsSide, dialSide>>
offRegistry == <<clientSide, connSide, methodsSide, dialSide>>
offMethods == <<clientSide, serverSide, registrySide, dialSide>>
offDial == <<clientSide, serverSide, registrySide, methodsSide>>

vars == <<clientSide, serverSide, registrySide, methodsSide, dialSide>>

\* ------------------------------------------------------------ pure helpers
\* The calls stored in a pending map.
Range(f) == {f[k] : k \in DOMAIN f}

\* pending[seq] of removeCall and receive: the call, or nil.
lookupAny(p, s) == IF DOMAIN p = {} THEN Nil
                   ELSE p[CHOOSE k \in DOMAIN p : \A j \in DOMAIN p : k <= j]
lookup(p, s) == IF s \in DOMAIN p THEN p[s] ELSE Nil

\* delete(c.pending, seq)
deleteNothing(p, s) == p
delete(p, s) == [k \in DOMAIN p \ {s} |-> p[k]]

\* c.pending[c.seq] = call
insert(p, s, c) == [k \in DOMAIN p \cup {s} |-> IF k = s THEN c ELSE p[k]]

\* c.seq++
seqReused(s) == s
seqNext(s) == s + 1

\* The guard of registerCall: the client still accepts calls.
registerOpenIgnoringShutdown == ~closing
registerOpenIgnoringClosing == ~shutdown
registerOpen == ~(closing \/ shutdown)

\* IsAvailable's result.
IsAvailableIgnoringShutdown == ~closing
IsAvailable == ~shutdown /\ ~closing

\* Close's test for an earlier Close.
closeSeenNever == FALSE
closeSeen == closing

\* The calls terminateCalls ranges over.
terminateSet(p) == Range(p)

\* The Done channel of a call and its capacity.
chanOf(c) == IF ckind[c] = "go" THEN 0 ELSE c
capOf(ch) == IF ch = 0 THEN DoneCap ELSE CallDoneCap
hasRoom(c) == Len(chans[chanOf(c)]) < capOf(chanOf(c))

\* call.done(): call.Done <- call
done(c) ==
    /\ chans' = [chans EXCEPT ![chanOf(c)] = Append(@, c)]
    /\ signals' = [signals EXCEPT ![c] = @ + 1]

\* Where the goroutine of call c is when Go has returned: Client.Call is in
\* its select, a caller of Go has the *Call.
afterGo(c) == IF ckind[c] = "call" THEN "await" ELSE "ret"

NoHeader == [seq |-> 0, err |-> NoErr, body |-> NoReply]

\* newClientCode: the Client as constructed, its reader started.
newClientCode ==
    /\ seq = FirstSeq
    /\ pending = <<>>
    /\ closing = FALSE
    /\ shutdown = FALSE
    /\ sending = Free
    /\ mu = Free
    /\ cpc = [c \in Calls |-> "idle"]
    /\ ckind = [c \in Calls |-> "none"]
    /\ cseq = [c \in Calls |-> 0]
    /\ cargs = [c \in Calls |-> 0]
    /\ creply = [c \in Calls |-> NoReply]
    /\ cerr = [c \in Calls |-> NoErr]
    /\ callRet = [c \in Calls |-> NotReturned]
    /\ chans = [ch \in 0..MaxCalls |-> <<>>]
    /\ rpc = "readHeader"
    /\ rh = NoHeader
    /\ rcall = Nil
    /\ rerr = NoErr
    /\ termTodo = {}
    /\ termCur = Nil
    /\ outbound = <<>>
    /\ inbound = <<>>
    /\ codecClosed = FALSE
    /\ codecCloses = 0
    /\ nresp = 0
    /\ closeRets = <<>>
    /\ signals = [c \in Calls |-> 0]
    /\ outcome = [c \in Calls |-> {}]
    /\ assigned = <<>>
    /\ termSnap = {}
    /\ lateDrop = FALSE

\* ------------------------------------------------- the server's connection
\* Who holds the server's send mutex, or writes a frame.
Nobody     == <<"nobody", 0>>
Loop       == <<"loop", 0>>
Handler(k) == <<"handler", k>>
Worker(k)  == <<"worker", k>>
Sender(k)  == <<"client", k>>

NoRequest == [seq |-> 0, sm |-> <<>>, argv |-> 0, err |-> NoErr, callErr |-> NoErr]
NoFrame   == [kind |-> "none"]

\* A connection with nothing sent, read or written yet.
connIdle ==
    /\ qpc = [k \in Reqs |-> "idle"]
    /\ qsm = [k \in Reqs |-> <<>>]
    /\ cliSending = Free
    /\ hangup = FALSE
    /\ lreq = NoRequest
    /\ lpos = 0
    /\ buffered = 0
    /\ req = [k \in Reqs |-> NoRequest]
    /\ hpc = [k \in Reqs |-> "none"]
    /\ wpc = [k \in Reqs |-> "none"]
    /\ wgCount = 0
    /\ reqIn = <<>>
    /\ respOut = <<>>
    /\ srvSending = Nobody
    /\ connClosed = FALSE
    /\ serveClosed = FALSE
    /\ dpc = "header"
    /\ dh = NoFrame
    /\ rpos = 0
    /\ got = [k \in Reqs |-> <<>>]
    /\ torn = FALSE
    /\ attempts = [k \in Reqs |-> 0]
    /\ lateWrites = 0

\* No server in the picture: NewServer's empty registry, no connection served.
noConnection ==
    /\ optHandleTimeout = 0
    /\ serviceMap = <<>>
    /\ lpc = "off"
    /\ connIdle

\* Nobody is calling Register; no receiver type is under NewService.
NoService == [name |-> "", methods |-> <<>>, by |-> 0]
NoType    == [name |-> <<>>, methods |-> <<>>]

noRegistrant ==
    /\ gpc = [p \in Regs |-> "idle"]
    /\ grcvr = [p \in Regs |-> NoType]
    /\ gsvc = [p \in Regs |-> NoService]
    /\ gret = [p \in Regs |-> NotReturned]

noReceiver ==
    /\ mrcvr = NoType
    /\ msvc = NoService

\* A *common.Option with its ConnectTimeout, and the nil *Option.
Option(t) == [nil |-> FALSE, ConnectTimeout |-> t]
NilOption == [nil |-> TRUE, ConnectTimeout |-> 0]

\* Callers of dialTimeout that have not started.
NoResult == [client |-> Nil, err |-> NotReturned]
noDial ==
    /\ dialPc = [d \in Dials |-> "start"]
    /\ dialOpt = [d \in Dials |-> NilOption]
    /\ dialConn = [d \in Dials |-> "none"]
    /\ facPc = [d \in Dials |-> "none"]
    /\ facRes = [d \in Dials |-> NoResult]
    /\ dialRet = [d \in Dials |-> NoResult]
    /\ dialVia = [d \in Dials |-> "none"]

Init == newClientCode /\ noConnection /\ noRegistrant /\ noReceiver /\ noDial

\* ------------------------------------------------------- Go, send and Call
\* Go: build the Call and enter send, up to c.sending.Lock().  Kind "call"
\* is the Go made by Client.Call, with its own channel of capacity 1; kind
\* "go" is a Go with the caller-provided channel.  Calls are numbered in the
\* order in which they get the send mutex.  GoUnlocked is send without
\* c.sending.Lock(): the goroutine goes on whoever is in send.
GoUnlocked(c, k, a) ==
    /\ cpc[c] = "idle"
    /\ \A j \in 1..(c - 1) : cpc[j] # "idle"
    /\ sending' = c
    /\ cpc' = [cpc EXCEPT ![c] = "reg"]
    /\ ckind' = [ckind EXCEPT ![c] = k]
    /\ cargs' = [cargs EXCEPT ![c] = a]
    /\ UNCHANGED <<clientVars, mu, cseq, creply, cerr, callRet, chans,
                   readerVars, streamVars, envVars, histVars>>
    /\ UNCHANGED offClient

Go(c, k, a) ==
    /\ cpc[c] = "idle"
    /\ \A j \in 1..(c - 1) : cpc[j] # "idle"
    /\ sending = Free
    /\ sending' = c
    /\ cpc' = [cpc EXCEPT ![c] = "reg"]
    /\ ckind' = [ckind EXCEPT ![c] = k]
    /\ cargs' = [cargs EXCEPT ![c] = a]
    /\ UNCHANGED <<clientVars, mu, cseq, creply, cerr, callRet, chans,
                   readerVars, streamVars, envVars, histVars>>
    /\ UNCHANGED offClient

\* send on its failure paths: registerCall or removeCall has returned and
\* released c.mu; the goroutine, still holding c.sending, goes on to
\* call.done() (state "doneWait"), a step of its own that others can precede.
sendFinish(c) ==
    /\ cpc' = [cpc EXCEPT ![c] = "doneWait"]
    /\ UNCHANGED <<chans, signals, sending>>

\* send: registerCall(call), the whole critical section of c.mu, and on its
\* error call.Error = err, on a call nobody else can reach.
registerCall(c) ==
    /\ cpc[c] = "reg"
    /\ mu = Free
    /\ IF registerOpen
       THEN /\ pending' = insert(pending, seq, c)
            /\ cseq' = [cseq EXCEPT ![c] = seq]
            /\ seq' = seqNext(seq)
            /\ assigned' = Append(assigned, seq)
            /\ cpc' = [cpc EXCEPT ![c] = "write"]
            /\ UNCHANGED <<cerr, outcome, chans, signals, sending>>
       ELSE /\ cerr' = [cerr EXCEPT ![c] = ErrClosed]
            /\ outcome' = [outcome EXCEPT ![c] = @ \cup {"registerFailed"}]
            /\ sendFinish(c)
            /\ UNCHANGED <<pending, cseq, seq, assigned>>
    /\ UNCHANGED <<closing, shutdown, mu, ckind, cargs, creply, callRet,
                   readerVars, streamVars, envVars, termSnap, lateDrop>>
    /\ UNCHANGED offClient

\* send: call.done() on the failure paths, then the deferred
\* c.sending.Unlock() and the return of Go.  The channel send blocks while
\* the channel is full.
sendDone(c) ==
    /\ cpc[c] = "doneWait"
    /\ hasRoom(c)
    /\ done(c)
    /\ sending' = Free
    /\ cpc' = [cpc EXCEPT ![c] = afterGo(c)]
    /\ UNCHANGED <<clientVars, mu, ckind, cseq, cargs, creply, cerr, callRet,
                   readerVars, streamVars, envVars, outcome, assigned, termSnap,
                   lateDrop>>
    /\ UNCHANGED offClient

\* send: c.cc.Write(&c.header, call.Args), first half: c.enc.Encode(h) puts
\* the request header on the stream.  Close takes only c.mu and can run
\* between the two halves.
sendWriteHeader(c) ==
    /\ cpc[c] = "write"
    /\ ~codecClosed
    /\ outbound' = Append(outbound,
                          [seq |-> cseq[c], args |-> cargs[c], call |-> c,
                           full |-> FALSE])
    /\ cpc' = [cpc EXCEPT ![c] = "writeBody"]
    /\ UNCHANGED <<clientVars, sending, mu, ckind, cseq, cargs, creply, cerr,
                   callRet, chans, readerVars, inbound, codecClosed,
                   codecCloses, envVars, histVars>>
    /\ UNCHANGED offClient

\* send: Write, second half: c.enc.Encode(body) completes the request; Write
\* succeeds; unlock and return.
sendWriteOk(c) ==
    /\ cpc[c] = "writeBody"
    /\ ~codecClosed
    /\ outbound' = [i \in DOMAIN outbound |->
                       IF outbound[i].call = c
                       THEN [outbound[i] EXCEPT !.full = TRUE]
                       ELSE outbound[i]]
    /\ sending' = Free
    /\ cpc' = [cpc EXCEPT ![c] = afterGo(c)]
    /\ UNCHANGED <<clientVars, mu, ckind, cseq, cargs, creply, cerr, callRet,
                   chans, readerVars, inbound, codecClosed, codecCloses, envVars,
                   histVars>>
    /\ UNCHANGED offClient

\* send: Write fails, at Encode(h) or, the header being on the stream
\* already (partial), at Encode(body); GobCode.Write closes the codec.  The
\* server may still answer a request written in part.
sendWriteFail(c, partial) ==
    /\ cpc[c] = IF partial THEN "writeBody" ELSE "write"
    /\ codecClosed' = TRUE
    /\ cpc' = [cpc EXCEPT ![c] = "writeFailed"]
    /\ UNCHANGED <<clientVars, sending, mu, ckind, cseq, cargs, creply, cerr,
                   callRet, chans, readerVars, outbound, inbound, codecCloses,
                   envVars, histVars>>
    /\ UNCHANGED offClient

\* send: call := c.removeCall(seqId) after the failed Write, the critical
\* section of c.mu; if call != nil, call.Error = err, on a call that is out of
\* pending, and the goroutine goes on to call.done(); if not, send returns.
sendRemove(c) ==
    /\ cpc[c] = "writeFailed"
    /\ mu = Free
    /\ pending' = delete(pending, cseq[c])
    /\ IF lookup(pending, cseq[c]) # Nil
       THEN /\ cerr' = [cerr EXCEPT ![lookup(pending, cseq[c])] = ErrWrite]
            /\ outcome' = [outcome EXCEPT ![lookup(pending, cseq[c])] =
                                              @ \cup {"sendFailed"}]
            /\ sendFinish(lookup(pending, cseq[c]))
       ELSE /\ sending' = Free
            /\ cpc' = [cpc EXCEPT ![c] = afterGo(c)]
            /\ UNCHANGED <<cerr, outcome, chans, signals>>
    /\ UNCHANGED <<seq, closing, shutdown, mu, ckind, cseq, cargs, creply,
                   callRet, readerVars, streamVars, envVars, assigned, termSnap,
                   lateDrop>>
    /\ UNCHANGED offClient

\* Call: case <-ctx.Done()
callCancel(c) ==
    /\ cpc[c] = "await"
    /\ cpc' = [cpc EXCEPT ![c] = "cancel"]
    /\ UNCHANGED <<clientVars, sending, mu, ckind, cseq, cargs, creply, cerr,
                   callRet, chans, readerVars, streamVars, envVars, histVars>>
    /\ UNCHANGED offClient

\* Call: c.removeCall(call.Seq); return "rpc client: call failed: ..."
callRemove(c) ==
    /\ cpc[c] = "cancel"
    /\ mu = Free
    /\ pending' = delete(pending, cseq[c])
    /\ outcome' = IF lookup(pending, cseq[c]) # Nil
                  THEN [outcome EXCEPT ![lookup(pending, cseq[c])] =
                                           @ \cup {"cancelled"}]
                  ELSE outcome
    /\ callRet' = [callRet EXCEPT ![c] = ErrCallFailed]
    /\ cpc' = [cpc EXCEPT ![c] = "returned"]
    /\ UNCHANGED <<seq, closing, shutdown, sending, mu, ckind, cseq, cargs,
                   creply, cerr, chans, readerVars, streamVars, envVars, signals,
                   assigned, termSnap, lateDrop>>
    /\ UNCHANGED offClient

\* Call: case call := <-call.Done: return call.Error
callDone(c) ==
    /\ cpc[c] = "await"
    /\ chans[c] # <<>>
    /\ chans' = [chans EXCEPT ![c] = Tail(@)]
    /\ callRet' = [callRet EXCEPT ![c] = cerr[Head(chans[c])]]
    /\ cpc' = [cpc EXCEPT ![c] = "returned"]
    /\ UNCHANGED <<clientVars, sending, mu, ckind, cseq, cargs, creply, cerr,
                   readerVars, streamVars, envVars, histVars>>
    /\ UNCHANGED offClient

\* The caller of Go receives from the channel it passed as done.
goReceive ==
    /\ chans[0] # <<>>
    /\ chans' = [chans EXCEPT ![0] = Tail(@)]
    /\ UNCHANGED <<clientVars, sending, mu, callVars, readerVars, streamVars,
                   envVars, histVars>>
    /\ UNCHANGED offClient

\* ------------------------------------------------- receive, terminateCalls
\* receive: c.cc.ReadHeader(&h) returns the next response header, then
\* call := c.removeCall(h.SeqId).
receiveHeader ==
    /\ rpc = "readHeader"
    /\ inbound # <<>>
    /\ mu = Free
    /\ rh' = Head(inbound)
    /\ inbound' = Tail(inbound)
    /\ rcall' = lookup(pending, Head(inbound).seq)
    /\ pending' = delete(pending, Head(inbound).seq)
    /\ outcome' = IF rcall' # Nil
                  THEN [outcome EXCEPT ![rcall'] =
                           @ \cup {IF Head(inbound).err # NoErr
                                   THEN "readerError" ELSE "readerReply"}]
                  ELSE outcome
    /\ rpc' = "readBody"
    /\ UNCHANGED <<seq, closing, shutdown, sending, mu, callVars, chans, rerr,
                   termTodo, termCur, outbound, codecClosed, codecCloses,
                   envVars, signals, assigned, termSnap, lateDrop>>
    /\ UNCHANGED offClient

\* receive: ReadHeader fails (the stream ended, broke, or was closed).  What
\* is left of the stream is never read.
receiveHeaderFail ==
    /\ rpc = "readHeader"
    /\ rerr' = ErrEOF
    /\ rpc' = "termLock"
    /\ inbound' = <<>>
    /\ UNCHANGED <<clientVars, sending, mu, callVars, chans, rh, rcall,
                   termTodo, termCur, outbound, codecClosed, codecCloses,
                   envVars, histVars>>
    /\ UNCHANGED offClient

\* receive: call.done() and the loop test err == nil.  The channel send
\* blocks while the channel is full: the reader then waits in state "done".
receiveFinish(c, e) ==
    IF hasRoom(c)
    THEN /\ done(c)
         /\ rpc' = IF e = NoErr THEN "readHeader" ELSE "termLock"
    ELSE /\ rpc' = "done"
         /\ UNCHANGED <<chans, signals>>

\* receive: the switch on the call removed.  ok says whether ReadBody
\* succeeds.
receiveBody(ok) ==
    /\ rpc = "readBody"
    /\ rerr' = IF ok THEN NoErr ELSE ErrBody
    /\ inbound' = IF ok THEN inbound ELSE <<>>
    /\ IF rcall = Nil
       THEN /\ rpc' = IF ok THEN "readHeader" ELSE "termLock"
            /\ lateDrop' = (lateDrop \/ \E c \in Calls :
                               cseq[c] = rh.seq /\ "cancelled" \in outcome[c])
            /\ UNCHANGED <<cerr, creply, outcome, chans, signals>>
       ELSE /\ receiveFinish(rcall, rerr')
            /\ UNCHANGED lateDrop
            /\ IF rh.err # NoErr
               THEN /\ cerr' = [cerr EXCEPT ![rcall] = rh.err]
                    /\ UNCHANGED <<creply, outcome>>
               ELSE IF ok
                    THEN /\ creply' = [creply EXCEPT ![rcall] = rh.body]
                         /\ UNCHANGED <<cerr, outcome>>
                    ELSE /\ cerr' = [cerr EXCEPT ![rcall] = ErrReadingBody]
                         /\ outcome' = [outcome EXCEPT ![rcall] =
                                (@ \ {"readerReply"}) \cup {"readerError"}]
                         /\ UNCHANGED creply
    /\ rh' = IF rpc' = "done" THEN rh ELSE NoHeader
    /\ rcall' = IF rpc' = "done" THEN rcall ELSE Nil
    /\ UNCHANGED <<clientVars, sending, mu, cpc, ckind, cseq, cargs, callRet,
                   termTodo, termCur, outbound, codecClosed, codecCloses,
                   envVars, assigned, termSnap>>
    /\ UNCHANGED offClient

\* receive: the blocked call.done() goes through.
receiveDone ==
    /\ rpc = "done"
    /\ hasRoom(rcall)
    /\ done(rcall)
    /\ rpc' = IF rerr = NoErr THEN "readHeader" ELSE "termLock"
    /\ rh' = NoHeader
    /\ rcall' = Nil
    /\ UNCHANGED <<clientVars, sending, mu, callVars, rerr, termTodo,
                   termCur, streamVars, envVars, outcome, assigned, termSnap,
                   lateDrop>>
    /\ UNCHANGED offClient

\* terminateCalls with the two Lock calls in the other order: c.mu.Lock()
\* before c.sending.Lock().
terminateMuFirst ==
    /\ rpc = "termLock"
    /\ mu = Free
    /\ mu' = Reader
    /\ rpc' = "termMu"
    /\ UNCHANGED <<seq, pending, closing, shutdown, sending, callVars, chans,
                   rh, rcall, rerr, termTodo, termCur, streamVars, envVars,
                   histVars>>
    /\ UNCHANGED offClient

\* terminateCalls: c.sending.Lock()
terminateLock ==
    /\ rpc = "termLock"
    /\ sending = Free
    /\ sending' = Reader
    /\ rpc' = "termMu"
    /\ UNCHANGED <<clientVars, mu, callVars, chans, rh, rcall, rerr, termTodo,
                   termCur, streamVars, envVars, histVars>>
    /\ UNCHANGED offClient

\* terminateCalls: c.mu.Lock(); c.shutdown = true; start ranging over pending.
terminateCalls ==
    /\ rpc = "termMu"
    /\ mu = Free
    /\ mu' = Reader
    /\ shutdown' = TRUE
    /\ termTodo' = terminateSet(pending)
    /\ termSnap' = Range(pending)
    /\ rpc' = "termLoop"
    /\ UNCHANGED <<seq, pending, closing, sending, callVars, chans, rh, rcall,
                   rerr, termCur, streamVars, envVars, signals, outcome,
                   assigned, lateDrop>>
    /\ UNCHANGED offClient

\* terminateCalls: one iteration takes some call of the map, sets its Error
\* and calls done(); the send blocks while the call's channel is full.
terminateNext(c) ==
    /\ rpc = "termLoop"
    /\ termCur = Nil
    /\ c \in termTodo
    /\ cerr' = [cerr EXCEPT ![c] = rerr]
    /\ outcome' = [outcome EXCEPT ![c] = @ \cup {"terminated"}]
    /\ IF hasRoom(c)
       THEN /\ done(c)
            /\ termTodo' = termTodo \ {c}
            /\ UNCHANGED termCur
       ELSE /\ termCur' = c
            /\ UNCHANGED <<chans, signals, termTodo>>
    /\ UNCHANGED <<clientVars, sending, mu, cpc, ckind, cseq, cargs, creply,
                   callRet, rpc, rh, rcall, rerr, streamVars, envVars, assigned,
                   termSnap, lateDrop>>
    /\ UNCHANGED offClient

\* terminateCalls: the blocked call.done() goes through.
terminateUnblock ==
    /\ rpc = "termLoop"
    /\ termCur # Nil
    /\ hasRoom(termCur)
    /\ done(termCur)
    /\ termTodo' = termTodo \ {termCur}
    /\ termCur' = Nil
    /\ UNCHANGED <<clientVars, sending, mu, callVars, rpc, rh, rcall, rerr,
                   streamVars, envVars, outcome, assigned, termSnap, lateDrop>>
    /\ UNCHANGED offClient

\* terminateCalls returns: both mutexes are released; receive ends.
terminateReturn ==
    /\ rpc = "termLoop"
    /\ termTodo = {}
    /\ mu' = Free
    /\ sending' = Free
    /\ rpc' = "exited"
    /\ UNCHANGED <<clientVars, callVars, chans, rh, rcall, rerr, termTodo,
                   termCur, streamVars, envVars, histVars>>
    /\ UNCHANGED offClient

\* ------------------------------------------------------------------- Close
\* Close returns "connection is closed" when closing is set; otherwise it
\* sets closing and returns c.cc.Close(), that is conn.Close(): nil (ok) or
\* an error, and always an error when a failed Write has closed the
\* connection before.
Close(ok) ==
    /\ Len(closeRets) < MaxClose
    /\ mu = Free
    /\ ok => ~closeSeen /\ ~codecClosed
    /\ IF closeSeen
       THEN /\ closeRets' = Append(closeRets, ErrClosed)
            /\ UNCHANGED <<closing, codecClosed, codecCloses>>
       ELSE /\ closing' = TRUE
            /\ codecClosed' = TRUE
            /\ codecCloses' = codecCloses + 1
            /\ closeRets' = Append(closeRets,
                                   IF ok THEN NoErr ELSE ErrConnClose)
    /\ UNCHANGED <<seq, pending, shutdown, sending, mu, callVars, chans,
                   readerVars, outbound, inbound, nresp, histVars>>
    /\ UNCHANGED offClient

\* ---------------------------------------------------------------- server
\* The server answers request i of the stream: with the method's reply, or
\* with an error header and the placeholder body.
serverRespond(i, ok) ==
    /\ nresp < MaxResp
    /\ i \in DOMAIN outbound
    /\ ok => outbound[i].full
    /\ rpc \in {"readHeader", "readBody", "done"}
    /\ inbound' = Append(inbound,
                         [seq |-> outbound[i].seq,
                          err |-> IF ok THEN NoErr ELSE ErrServer,
                          body |-> IF ok THEN Method(outbound[i].args)
                                         ELSE InvalidRequest])
    /\ nresp' = nresp + 1
    /\ UNCHANGED <<clientVars, sending, mu, callVars, chans, readerVars,
                   outbound, codecClosed, codecCloses, closeRets, histVars>>
    /\ UNCHANGED offClient

Next ==
    \/ \E c \in Calls, k \in {"go", "call"} : \E a \in ArgVals(c) : Go(c, k, a)
    \/ \E c \in Calls : registerCall(c)
    \/ \E c \in Calls : sendDone(c)
    \/ \E c \in Calls : sendWriteHeader(c)
    \/ \E c \in Calls : sendWriteOk(c)
    \/ \E c \in Calls, partial \in BOOLEAN : sendWriteFail(c, partial)
    \/ \E c \in Calls : sendRemove(c)
    \/ \E c \in Calls : callCancel(c)
    \/ \E c \in Calls : callRemove(c)
    \/ \E c \in Calls : callDone(c)
    \/ goReceive
    \/ receiveHeader
    \/ receiveHeaderFail
    \/ \E ok \in BOOLEAN : receiveBody(ok)
    \/ receiveDone
    \/ terminateLock
    \/ terminateCalls
    \/ \E c \in Calls : terminateNext(c)
    \/ terminateUnblock
    \/ terminateReturn
    \/ \E ok \in BOOLEAN : Close(ok)
    \/ \E i \in 1..MaxCalls, ok \in BOOLEAN : serverRespond(i, ok)

Spec == Init /\ [][Next]_vars

\* Fairness: every goroutine of the client that can take its next step takes
\* it, and a read from a closed codec returns its error.  Nothing obliges the
\* stream to break, the server to answer, a context to be cancelled, or the
\* caller of Go to receive from the done channel it passed: Go runs send in
\* the caller's own goroutine and call.done() is a blocking send.
Fairness ==
    /\ WF_vars(\E c \in Calls : registerCall(c))
    /\ WF_vars(\E c \in Calls : sendDone(c))
    /\ WF_vars(\E c \in Calls :
                  \/ sendWriteHeader(c)
                  \/ sendWriteOk(c)
                  \/ \E partial \in BOOLEAN : sendWriteFail(c, partial))
    /\ WF_vars(\E c \in Calls : sendRemove(c))
    /\ WF_vars(\E c \in Calls : callRemove(c))
    /\ WF_vars(receiveHeader)
    /\ WF_vars(codecClosed /\ receiveHeaderFail)
    /\ WF_vars(\E ok \in BOOLEAN : receiveBody(ok))
    /\ WF_vars(receiveDone)
    /\ WF_vars(terminateLock)
    /\ WF_vars(terminateCalls)
    /\ WF_vars(\E c \in Calls : terminateNext(c))
    /\ WF_vars(terminateUnblock)
    /\ WF_vars(terminateReturn)

FairSpec == Init /\ [][Next]_vars /\ Fairness

\* ============================================ NewService and Server.Register
\* A reflect.Type of a parameter or result: its Name() as a sequence of
\* characters (empty for an unnamed type such as a pointer type), its
\* PkgPath() ("" for a predeclared or unnamed type) and its Kind().
IntType        == [name |-> <<"i", "n", "t">>, pkgPath |-> "", kind |-> "int"]
ErrorType      == [name |-> <<"e", "r", "r", "o", "r">>, pkgPath |-> "",
                   kind |-> "interface"]
ExportedType   == [name |-> <<"A">>, pkgPath |-> "main", kind |-> "struct"]
UnexportedType == [name |-> <<"a">>, pkgPath |-> "main", kind |-> "struct"]
PtrType        == [name |-> <<>>, pkgPath |-> "", kind |-> "ptr"]

ParamTypes  == {IntType, ExportedType, UnexportedType, PtrType}
ResultTypes == {ErrorType, IntType}

\* The signatures a method can have: the receiver and one to three more
\* parameters, no to two results.
Signatures ==
    {[ins |-> <<PtrType>> \o ps, outs |-> os] :
        ps \in UNION {[1..n -> ParamTypes] : n \in 1..3},
        os \in UNION {[1..n -> ResultTypes] : n \in 0..2}}

\* Method i of a type is named by its index.
MethodNames == <<"S", "T", "U", "V">>

\* The receiver types NewService is given: named F, with 1..MaxMethods
\* exported methods of any signature.
ReceiverTypes ==
    {[name |-> <<"F">>, methods |-> ms] :
        ms \in UNION {[1..n -> Signatures] : n \in 1..MaxMethods}}

\* The string of a sequence of characters.
RECURSIVE join(_)
join(s) == IF s = <<>> THEN "" ELSE Head(s) \o join(Tail(s))

\* ast.IsExported(name): the name starts with an upper-case letter.
Upper == {"A", "B", "C", "D", "E", "F", "G", "H", "I", "J", "K", "L", "M",
          "N", "O", "P", "Q", "R", "S", "T", "U", "V", "W", "X", "Y", "Z"}
IsExported(name) == name # <<>> /\ name[1] \in Upper

isExportedOrBuiltinType(t) == IsExported(t.name) \/ t.pkgPath = ""

\* RegisterMethods: the loop over s.Typ.Method(i), from index i on, with the
\* method table built so far.
RECURSIVE RegisterMethodsFrom(_, _, _)
RegisterMethodsFrom(typ, i, table) ==
    IF ~(i < Len(typ.methods)) THEN table
    ELSE LET mType == typ.methods[i + 1]
         IN  IF Len(mType.ins) # 3 \/ Len(mType.outs) # 1
             THEN RegisterMethodsFrom(typ, i + 1, table)
             ELSE IF mType.outs[1] # ErrorType
             THEN RegisterMethodsFrom(typ, i + 1, table)
             ELSE IF ~isExportedOrBuiltinType(mType.ins[2])
                     \/ ~isExportedOrBuiltinType(mType.ins[3])
             THEN RegisterMethodsFrom(typ, i + 1, table)
             ELSE RegisterMethodsFrom(typ, i + 1,
                      insert(table, MethodNames[i + 1],
                             [ArgType |-> mType.ins[2],
                              ReplyType |-> mType.ins[3]]))

RegisterMethods(typ) == RegisterMethodsFrom(typ, 0, <<>>)

\* NewService(rcvr), called by caller p: the name of the receiver's type and
\* its method table; `by` tells the *Service values apart.
NewService(rcvr, p) ==
    [name |-> join(rcvr.name), methods |-> RegisterMethods(rcvr), by |-> p]

\* sync.Map.LoadOrStore(name, svc): the map afterwards and `loaded`.
StoreAlways(m, name, svc) == [map |-> insert(m, name, svc), loaded |-> FALSE]
LoadOrStore(m, name, svc) ==
    IF name \in DOMAIN m THEN [map |-> m, loaded |-> TRUE]
    ELSE [map |-> insert(m, name, svc), loaded |-> FALSE]

ErrDuplicate == "rpc: service already defined: "

\* The receivers given to Register: types F and G, each with one method
\* func (t *T) S(arg int, reply *int) error.
ServiceTypes ==
    {[name |-> n,
      methods |-> <<[ins |-> <<PtrType, IntType, PtrType>>,
                     outs |-> <<ErrorType>>]>>] : n \in {<<"F">>, <<"G">>}}

\* Register, first half: svc := service.NewService(rcvr).
Register(p, rcvr) ==
    /\ gpc[p] = "idle"
    /\ grcvr' = [grcvr EXCEPT ![p] = rcvr]
    /\ gsvc' = [gsvc EXCEPT ![p] = NewService(rcvr, p)]
    /\ gpc' = [gpc EXCEPT ![p] = "built"]
    /\ UNCHANGED <<serviceMap, gret>>
    /\ UNCHANGED offRegistry

\* Register, second half: s.serviceMap.LoadOrStore(svc.Name, svc) and the
\* return of the duplicate error or nil.
RegisterStore(p) ==
    /\ gpc[p] = "built"
    /\ serviceMap' = LoadOrStore(serviceMap, gsvc[p].name, gsvc[p]).map
    /\ gret' = [gret EXCEPT ![p] =
                   IF LoadOrStore(serviceMap, gsvc[p].name, gsvc[p]).loaded
                   THEN ErrDuplicate \o gsvc[p].name ELSE NoErr]
    /\ gpc' = [gpc EXCEPT ![p] = "done"]
    /\ UNCHANGED <<grcvr, gsvc>>
    /\ UNCHANGED offRegistry

RegisterNext ==
    \/ \E p \in Regs, rcvr \in ServiceTypes : Register(p, rcvr)
    \/ \E p \in Regs : RegisterStore(p)

RegisterSpec == Init /\ [][RegisterNext]_vars

\* NewService applied to one receiver type drawn from ReceiverTypes.
MethodsInit ==
    /\ newClientCode /\ noConnection /\ noRegistrant /\ noDial
    /\ mrcvr \in ReceiverTypes
    /\ msvc = NoService

NewServiceStep ==
    /\ msvc = NoService
    /\ msvc' = NewService(mrcvr, 1)
    /\ UNCHANGED mrcvr
    /\ UNCHANGED offMethods

MethodsSpec == MethodsInit /\ [][NewServiceStep]_vars

\* ===================================================== one server connection
\* serveCode on one connection (src/server/server.go), with the peer that
\* sends the requests and decodes the responses.  A frame is one gob value on
\* the stream: a header or a body.  Request k carries SeqId k: the peer's
\* requests are numbered in the order in which they get its send mutex.

TimeoutD == 1       \* a HandleTimeout > 0, in seconds
HandleTimeouts == {0, TimeoutD}

ErrHandleTimeout == "rpc server: request handle timeout: expect within 1s"
ErrIllFormed     == "rpc server: service/method request ill-formed: "
ErrNoService     == "rpc server: can't find service "
ErrNoMethod      == "rpc server: can't find method "

\* The registry when the server starts to serve: type F, with its method S,
\* has been registered.
Registered ==
    LoadOrStore(<<>>, "F",
                NewService(CHOOSE r \in ServiceTypes : r.name = <<"F">>, 0)).map

\* The ServiceMethod strings the peer asks for, as sequences of characters:
\* resolvable, unknown method, unknown service, ill-formed.
ServiceMethods == {<<"F", ".", "S">>, <<"F", ".", "N">>, <<"G", ".", "S">>,
                   <<"F", "S">>}

\* strings.LastIndex(s, ch): the 0-based index of the last ch, or -1.
LastIndex(s, ch) ==
    IF \E i \in DOMAIN s : s[i] = ch
    THEN (CHOOSE i \in DOMAIN s :
              s[i] = ch /\ \A j \in DOMAIN s : s[j] = ch => j <= i) - 1
    ELSE 0 - 1

\* findService: the error of the lookup, "" when service and method exist.
findService(sm) ==
    LET dot == LastIndex(sm, ".")
        serviceName == join(SubSeq(sm, 1, dot))
        methodName == join(SubSeq(sm, dot + 2, Len(sm)))
    IN  IF dot < 0 THEN ErrIllFormed \o join(sm)
        ELSE IF serviceName \notin DOMAIN serviceMap
             THEN ErrNoService \o serviceName
        ELSE IF methodName \notin DOMAIN serviceMap[serviceName].methods
             THEN ErrNoMethod \o methodName
        ELSE NoErr

\* The mutexes, the unbuffered channel `called`, the WaitGroup.
cliLockIgnored == TRUE
cliLockFree == cliSending = Free

srvLockIgnored == TRUE
srvLockFree == srvSending = Nobody

\* called <- struct{}{} goes through when handleRequest is receiving from it.
calledBuffered(k) == TRUE
calledReceiver(k) == hpc[k] = "select"

\* wg.Wait() returns.
wgIgnored == TRUE
wgDone == wgCount = 0

\* ServeConn -> serveCode: the connection is open, the registry is filled.
ServeConn ==
    /\ optHandleTimeout \in HandleTimeouts
    /\ serviceMap = Registered
    /\ lpc = "readHeader"
    /\ connIdle

ServerInit == newClientCode /\ ServeConn /\ noRegistrant /\ noReceiver /\ noDial

\* ----------------------------------------------------------------- the peer
\* Client.send of request k: sending.Lock(), registerCall, and the header of
\* cc.Write.
peerSendHeader(k, sm) ==
    /\ ~hangup
    /\ qpc[k] = "idle"
    /\ \A j \in 1..(k - 1) : qpc[j] # "idle"
    /\ cliLockFree
    /\ cliSending' = k
    /\ qpc' = [qpc EXCEPT ![k] = "body"]
    /\ qsm' = [qsm EXCEPT ![k] = sm]
    /\ reqIn' = Append(reqIn, [kind |-> "header", seq |-> k, sm |-> sm,
                               err |-> NoErr, by |-> Sender(k)])
    /\ UNCHANGED <<optHandleTimeout, serviceMap, hangup, loopVars, handlerVars,
                   respOut, srvSending, connClosed, serveClosed, decoderVars,
                   srvHistVars>>
    /\ UNCHANGED offServer

\* Client.send of request k: the body of cc.Write, and sending.Unlock().
peerSendBody(k) ==
    /\ ~hangup
    /\ qpc[k] = "body"
    /\ \E a \in ArgVals(k) :
         reqIn' = Append(reqIn, [kind |-> "body", seq |-> k, val |-> a,
                                 by |-> Sender(k)])
    /\ cliSending' = Free
    /\ qpc' = [qpc EXCEPT ![k] = "sent"]
    /\ UNCHANGED <<optHandleTimeout, serviceMap, qsm, hangup, loopVars,
                   handlerVars, respOut, srvSending, connClosed, serveClosed,
                   decoderVars, srvHistVars>>
    /\ UNCHANGED offServer

\* The peer goes away: what it sent stays readable, then reads return EOF.
peerHangup ==
    /\ ~hangup
    /\ hangup' = TRUE
    /\ UNCHANGED <<optHandleTimeout, serviceMap, qpc, qsm, cliSending, loopVars,
                   handlerVars, wireVars, decoderVars, srvHistVars>>
    /\ UNCHANGED offServer

\* Client.receive: ReadHeader of the next response.
decodeHeader ==
    /\ dpc = "header"
    /\ rpos < Len(respOut)
    /\ dh' = respOut[rpos + 1]
    /\ rpos' = rpos + 1
    /\ dpc' = "body"
    /\ UNCHANGED <<optHandleTimeout, serviceMap, senderVars, loopVars,
                   handlerVars, wireVars, got, torn, srvHistVars>>
    /\ UNCHANGED offServer

\* Client.receive: ReadBody; the call of h.SeqId gets h.Error or the reply.
\* The pair is torn when the frame read as the header is no header or the
\* frame read as its body is not the body written with it.
decodeBody ==
    /\ dpc = "body"
    /\ rpos < Len(respOut)
    /\ LET b == respOut[rpos + 1]
           paired == dh.kind = "header" /\ b.kind = "body" /\ b.by = dh.by
       IN  /\ torn' = (torn \/ ~paired)
           /\ got' = IF paired
                     THEN [got EXCEPT ![dh.seq] =
                              Append(@, IF dh.err # NoErr
                                        THEN [err |-> dh.err, reply |-> NoReply]
                                        ELSE [err |-> NoErr, reply |-> b.val])]
                     ELSE got
    /\ rpos' = rpos + 1
    /\ dpc' = "header"
    /\ dh' = NoFrame
    /\ UNCHANGED <<optHandleTimeout, serviceMap, senderVars, loopVars,
                   handlerVars, wireVars, srvHistVars>>
    /\ UNCHANGED offServer

\* ---------------------------------------------------- serveCode, readRequest
\* GobCode.dec reads the connection through a buffer: the frames
\* reqIn[1..buffered] have been taken from the connection, the frames
\* reqIn[1..lpos] have been decoded.  Decode gets the next frame from the
\* buffer, whatever has become of the connection since, or reads the open
\* connection for it.
canDecode == lpos < buffered \/ (~connClosed /\ lpos < Len(reqIn))

\* What the buffer holds after the next frame has been decoded: a read of
\* the connection takes the frame and any number of those behind it.
refill == IF lpos < buffered THEN {buffered} ELSE (lpos + 1)..Len(reqIn)

\* Decode fails without a frame: the buffer is empty and the connection is
\* closed, or the peer has gone and everything it sent has been read.
decodeEnds == lpos = buffered /\ (connClosed \/ (lpos = Len(reqIn) /\ hangup))

\* readRequest: readRequestHeader returns the next frame as a header, then
\* findService.  When findService fails readRequest returns (req, err): the
\* body is not read, and serveCode goes on to send the error response.
readRequest ==
    /\ lpc = "readHeader"
    /\ canDecode
    /\ reqIn[lpos + 1].kind = "header"
    /\ lpos' = lpos + 1
    /\ buffered' \in refill
    /\ lreq' = [seq |-> reqIn[lpos + 1].seq, sm |-> reqIn[lpos + 1].sm,
                argv |-> 0, err |-> findService(reqIn[lpos + 1].sm),
                callErr |-> NoErr]
    /\ lpc' = IF findService(reqIn[lpos + 1].sm) = NoErr THEN "readBody"
                                                         ELSE "lock"
    /\ UNCHANGED <<optHandleTimeout, serviceMap, senderVars, handlerVars,
                   wireVars, decoderVars, srvHistVars>>
    /\ UNCHANGED offServer

\* readRequestHeader fails: the connection is closed, the stream ended, or the
\* next frame does not decode as a Header.  readRequest returns (nil, err) and
\* serveCode leaves its loop.
readRequestHeaderFail ==
    /\ lpc = "readHeader"
    /\ \/ decodeEnds /\ UNCHANGED <<lpos, buffered>>
       \/ /\ canDecode
          /\ reqIn[lpos + 1].kind # "header"
          /\ lpos' = lpos + 1
          /\ buffered' \in refill
    /\ lpc' = "wait"
    /\ UNCHANGED <<optHandleTimeout, serviceMap, senderVars, lreq, handlerVars,
                   wireVars, decoderVars, srvHistVars>>
    /\ UNCHANGED offServer

\* readRequest: cc.ReadBody(argvi) succeeds; serveCode does wg.Add(1) and
\* starts handleRequest, which starts its worker.
readRequestBody ==
    /\ lpc = "readBody"
    /\ canDecode
    /\ reqIn[lpos + 1].kind = "body"
    /\ lpos' = lpos + 1
    /\ buffered' \in refill
    /\ req' = [req EXCEPT ![lreq.seq] =
                   [lreq EXCEPT !.argv = reqIn[lpos + 1].val]]
    /\ hpc' = [hpc EXCEPT ![lreq.seq] = "select"]
    /\ wpc' = [wpc EXCEPT ![lreq.seq] = "calling"]
    /\ wgCount' = wgCount + 1
    /\ lreq' = NoRequest
    /\ lpc' = "readHeader"
    /\ UNCHANGED <<optHandleTimeout, serviceMap, senderVars, wireVars,
                   decoderVars, srvHistVars>>
    /\ UNCHANGED offServer

\* readRequest: cc.ReadBody fails; serveCode sends the error response.
readRequestBodyFail ==
    /\ lpc = "readBody"
    /\ \/ decodeEnds /\ UNCHANGED <<lpos, buffered>>
       \/ /\ canDecode
          /\ reqIn[lpos + 1].kind # "body"
          /\ lpos' = lpos + 1
          /\ buffered' \in refill
    /\ lreq' = [lreq EXCEPT !.err = ErrBody]
    /\ lpc' = "lock"
    /\ UNCHANGED <<optHandleTimeout, serviceMap, senderVars, handlerVars,
                   wireVars, decoderVars, srvHistVars>>
    /\ UNCHANGED offServer

\* ------------------------------------------------------------- sendResponse
\* The three callers of sendResponse: serveCode's loop (error response), the
\* timeout path of handleRequest, and the worker.
Writers == {Loop} \cup {Handler(k) : k \in Reqs} \cup {Worker(k) : k \in Reqs}

wstate(w) == IF w = Loop THEN lpc
             ELSE IF w[1] = "handler" THEN hpc[w[2]] ELSE wpc[w[2]]

\* The header a writer passes: serveCode's req.head, or the req.head that
\* handleRequest and its worker share.
whead(w) == IF w = Loop THEN lreq ELSE req[w[2]]

\* The body a writer passes: the reply, or the placeholder.
wbody(w) == IF w[1] = "worker" /\ req[w[2]].err = NoErr
            THEN Method(req[w[2]].argv) ELSE InvalidRequest

\* The writer moves on to state s.
moveTo(w, s) ==
    /\ lpc' = IF w = Loop THEN s ELSE lpc
    /\ hpc' = IF w[1] = "handler" THEN [hpc EXCEPT ![w[2]] = s] ELSE hpc
    /\ wpc' = IF w[1] = "worker" THEN [wpc EXCEPT ![w[2]] = s] ELSE wpc

\* sendResponse has returned: serveCode continues its loop; the timeout path
\* returns from handleRequest (wg.Done()); the worker goes to sent <- .
afterResponse(w) ==
    /\ moveTo(w, IF w = Loop THEN "readHeader"
                 ELSE IF w[1] = "handler" THEN "timedOut" ELSE "sent")
    /\ wgCount' = IF w[1] = "handler" THEN wgCount - 1 ELSE wgCount
    /\ lreq' = IF w = Loop THEN NoRequest ELSE lreq

\* sendResponse: sending.Lock() and the header of cc.Write.  When the header
\* cannot be written Write closes the codec and sendResponse returns.
sendResponse(w, ok) ==
    /\ wstate(w) = "lock"
    /\ srvLockFree
    /\ ok => ~connClosed
    /\ ~ok => (connClosed \/ hangup)
    /\ attempts' = IF w = Loop THEN attempts
                   ELSE [attempts EXCEPT ![w[2]] = @ + 1]
    /\ lateWrites' = lateWrites + (IF serveClosed THEN 1 ELSE 0)
    /\ IF ok
       THEN /\ respOut' = Append(respOut,
                                 [kind |-> "header", seq |-> whead(w).seq,
                                  sm |-> whead(w).sm, err |-> whead(w).err,
                                  by |-> w])
            /\ srvSending' = w
            /\ moveTo(w, "body")
            /\ UNCHANGED <<connClosed, wgCount, lreq>>
       ELSE /\ connClosed' = TRUE
            /\ afterResponse(w)
            /\ UNCHANGED <<respOut, srvSending>>
    /\ UNCHANGED <<optHandleTimeout, serviceMap, senderVars, lpos, buffered,
                   req, reqIn,
                   serveClosed, decoderVars>>
    /\ UNCHANGED offServer

\* sendResponse: the body of cc.Write, then sending.Unlock().  When the body
\* cannot be written Write closes the codec.
sendResponseBody(w, ok) ==
    /\ wstate(w) = "body"
    /\ ok => ~connClosed
    /\ ~ok => (connClosed \/ hangup)
    /\ respOut' = IF ok
                  THEN Append(respOut, [kind |-> "body", seq |-> whead(w).seq,
                                        val |-> wbody(w), by |-> w])
                  ELSE respOut
    /\ connClosed' = (connClosed \/ ~ok)
    /\ srvSending' = Nobody
    /\ afterResponse(w)
    /\ UNCHANGED <<optHandleTimeout, serviceMap, senderVars, lpos, buffered,
                   req, reqIn,
                   serveClosed, decoderVars, srvHistVars>>
    /\ UNCHANGED offServer

\* ------------------------------------------------------------ handleRequest
\* The worker: req.svc.Call returns, with an error or without; the worker
\* goes to called <- struct{}{}.
workerCall(k, ok) ==
    /\ wpc[k] = "calling"
    /\ wpc' = [wpc EXCEPT ![k] = "called"]
    /\ req' = [req EXCEPT ![k].callErr = IF ok THEN NoErr ELSE ErrServer]
    /\ UNCHANGED <<optHandleTimeout, serviceMap, senderVars, loopVars, hpc,
                   wgCount, wireVars, decoderVars, srvHistVars>>
    /\ UNCHANGED offServer

\* handleRequest receives from called (<-called, or case <-called) and goes
\* to <-sent; the worker sets req.head.Error when the method failed and goes
\* to sendResponse.
handleRequestCalled(k) ==
    /\ wpc[k] = "called"
    /\ calledReceiver(k)
    /\ hpc' = [hpc EXCEPT ![k] = "waitSent"]
    /\ wpc' = [wpc EXCEPT ![k] = "lock"]
    /\ req' = [req EXCEPT ![k].err = req[k].callErr]
    /\ UNCHANGED <<optHandleTimeout, serviceMap, senderVars, loopVars, wgCount,
                   wireVars, decoderVars, srvHistVars>>
    /\ UNCHANGED offServer

\* handleRequest: case <-time.After(timeout), for timeout > 0: set
\* req.head.Error and go to sendResponse.
handleRequestTimeoutAlways(k) ==
    /\ hpc[k] = "select"
    /\ hpc' = [hpc EXCEPT ![k] = "lock"]
    /\ req' = [req EXCEPT ![k].err = ErrHandleTimeout]
    /\ UNCHANGED <<optHandleTimeout, serviceMap, senderVars, loopVars, wpc,
                   wgCount, wireVars, decoderVars, srvHistVars>>
    /\ UNCHANGED offServer

handleRequestTimeout(k) ==
    /\ optHandleTimeout # 0
    /\ hpc[k] = "select"
    /\ hpc' = [hpc EXCEPT ![k] = "lock"]
    /\ req' = [req EXCEPT ![k].err = ErrHandleTimeout]
    /\ UNCHANGED <<optHandleTimeout, serviceMap, senderVars, loopVars, wpc,
                   wgCount, wireVars, decoderVars, srvHistVars>>
    /\ UNCHANGED offServer

\* handleRequest receives from sent and returns (wg.Done()); the worker ends.
handleRequestSent(k) ==
    /\ wpc[k] = "sent"
    /\ hpc[k] = "waitSent"
    /\ hpc' = [hpc EXCEPT ![k] = "returned"]
    /\ wpc' = [wpc EXCEPT ![k] = "exited"]
    /\ wgCount' = wgCount - 1
    /\ UNCHANGED <<optHandleTimeout, serviceMap, senderVars, loopVars, req,
                   wireVars, decoderVars, srvHistVars>>
    /\ UNCHANGED offServer

\* serveCode after its loop: wg.Wait() returns, then cc.Close().
serveCodeClose ==
    /\ lpc = "wait"
    /\ wgDone
    /\ lpc' = "closed"
    /\ connClosed' = TRUE
    /\ serveClosed' = TRUE
    /\ UNCHANGED <<optHandleTimeout, serviceMap, senderVars, lreq, lpos,
                   buffered, handlerVars, reqIn, respOut, srvSending,
                   decoderVars,
                   srvHistVars>>
    /\ UNCHANGED offServer

ServerNext ==
    \/ \E k \in Reqs, sm \in ServiceMethods : peerSendHeader(k, sm)
    \/ \E k \in Reqs : peerSendBody(k)
    \/ peerHangup
    \/ decodeHeader
    \/ decodeBody
    \/ readRequest
    \/ readRequestHeaderFail
    \/ readRequestBody
    \/ readRequestBodyFail
    \/ \E w \in Writers, ok \in BOOLEAN : sendResponse(w, ok)
    \/ \E w \in Writers, ok \in BOOLEAN : sendResponseBody(w, ok)
    \/ \E k \in Reqs, ok \in BOOLEAN : workerCall(k, ok)
    \/ \E k \in Reqs : handleRequestCalled(k)
    \/ \E k \in Reqs : handleRequestTimeout(k)
    \/ \E k \in Reqs : handleRequestSent(k)
    \/ serveCodeClose

ServerSpec == ServerInit /\ [][ServerNext]_vars

\* Fairness on the connection: a goroutine that can take its next step takes
\* it, and the peer's reader decodes what is on the stream.  Nothing obliges
\* a method to return, a timer to fire or the peer to send.
ServerFairness ==
    /\ WF_vars(readRequest)
    /\ WF_vars(readRequestBody)
    /\ WF_vars(\E w \in Writers, ok \in BOOLEAN : sendResponse(w, ok))
    /\ WF_vars(\E w \in Writers, ok \in BOOLEAN : sendResponseBody(w, ok))
    /\ WF_vars(\E k \in Reqs : handleRequestCalled(k))
    /\ WF_vars(\E k \in Reqs : handleRequestSent(k))
    /\ WF_vars(decodeHeader)
    /\ WF_vars(decodeBody)

ServerFairSpec == ServerInit /\ [][ServerNext]_vars /\ ServerFairness

\* ============================================================== dialTimeout
\* dialTimeout(f, network, address, opts...) (src/client/client.go), called
\* by MaxDials callers.  Durations are whole seconds.
DefaultConnectTimeout == 10     \* DefaultOption.ConnectTimeout

\* The options a caller passes: nothing, nil, one Option, or two.
OptionArgs ==
    {<<>>, <<NilOption>>, <<Option(0)>>, <<Option(TimeoutD)>>,
     <<Option(0), Option(TimeoutD)>>}

ErrOptions == "number of options is more than 1"
ErrDial    == "dial error"
ErrFactory == "factory error"

\* fmt.Errorf("rpc client: connect timeout: expect within %s", d)
ErrConnectTimeout(d) ==
    "rpc client: connect timeout: expect within " \o ToString(d) \o "s"

\* parseOptions
parseOptions(opts) ==
    IF Len(opts) = 0 \/ opts[1] = NilOption
    THEN [opt |-> Option(DefaultConnectTimeout), err |-> NoErr]
    ELSE IF Len(opts) # 1 THEN [opt |-> NilOption, err |-> ErrOptions]
    ELSE [opt |-> opts[1], err |-> NoErr]

\* What a factory can return: a client, an error, or neither.
FactoryResults(d) ==
    {[client |-> d, err |-> NoErr], [client |-> Nil, err |-> ErrFactory],
     [client |-> Nil, err |-> NoErr]}

\* The deferred function of dialTimeout: if err != nil { conn.Close() }.
closeNever(conn, err) == conn
closeOnError(conn, err) == IF err # NoErr THEN "closed" ELSE conn

\* dialTimeout up to its wait: parseOptions, net.DialTimeout (which succeeds
\* or fails), and the start of the factory goroutine.
dialTimeout(d, opts, dialOk) ==
    /\ dialPc[d] = "start"
    /\ IF parseOptions(opts).err # NoErr
       THEN /\ dialRet' = [dialRet EXCEPT ![d] =
                              [client |-> Nil, err |-> parseOptions(opts).err]]
            /\ dialPc' = [dialPc EXCEPT ![d] = "returned"]
            /\ UNCHANGED <<dialOpt, dialConn, facPc>>
       ELSE /\ dialOpt' = [dialOpt EXCEPT ![d] = parseOptions(opts).opt]
            /\ IF dialOk
               THEN /\ dialConn' = [dialConn EXCEPT ![d] = "open"]
                    /\ facPc' = [facPc EXCEPT ![d] = "running"]
                    /\ dialPc' = [dialPc EXCEPT ![d] = "wait"]
                    /\ UNCHANGED dialRet
               ELSE /\ dialRet' = [dialRet EXCEPT ![d] =
                                      [client |-> Nil, err |-> ErrDial]]
                    /\ dialPc' = [dialPc EXCEPT ![d] = "returned"]
                    /\ UNCHANGED <<dialConn, facPc>>
    /\ UNCHANGED <<facRes, dialVia>>
    /\ UNCHANGED offDial

\* The factory goroutine: f(conn, opt) returns; the goroutine goes to
\* ch <- clientResult{...} on the unbuffered channel.
factoryReturn(d, res) ==
    /\ facPc[d] = "running"
    /\ facRes' = [facRes EXCEPT ![d] = res]
    /\ facPc' = [facPc EXCEPT ![d] = "sending"]
    /\ UNCHANGED <<dialPc, dialOpt, dialConn, dialRet, dialVia>>
    /\ UNCHANGED offDial

\* dialTimeout receives the result (result := <-ch, or case result := <-ch)
\* and returns it; the deferred function closes conn on an error.
dialResult(d) ==
    /\ dialPc[d] = "wait"
    /\ facPc[d] = "sending"
    /\ dialRet' = [dialRet EXCEPT ![d] = facRes[d]]
    /\ dialConn' = [dialConn EXCEPT ![d] = closeOnError(@, facRes[d].err)]
    /\ dialPc' = [dialPc EXCEPT ![d] = "returned"]
    /\ facPc' = [facPc EXCEPT ![d] = "exited"]
    /\ dialVia' = [dialVia EXCEPT ![d] = "result"]
    /\ UNCHANGED <<dialOpt, facRes>>
    /\ UNCHANGED offDial

\* dialTimeout: case <-time.After(opt.ConnectTimeout), for ConnectTimeout
\* other than 0; the deferred function closes conn.
dialTimer(d) ==
    /\ dialPc[d] = "wait"
    /\ dialOpt[d].ConnectTimeout # 0
    /\ dialRet' = [dialRet EXCEPT ![d] =
                      [client |-> Nil,
                       err |-> ErrConnectTimeout(dialOpt[d].ConnectTimeout)]]
    /\ dialConn' = [dialConn EXCEPT ![d] =
                       closeOnError(@, ErrConnectTimeout(
                                           dialOpt[d].ConnectTimeout))]
    /\ dialPc' = [dialPc EXCEPT ![d] = "returned"]
    /\ dialVia' = [dialVia EXCEPT ![d] = "timer"]
    /\ UNCHANGED <<dialOpt, facPc, facRes>>
    /\ UNCHANGED offDial

DialNext ==
    \/ \E d \in Dials, opts \in OptionArgs, dialOk \in BOOLEAN :
          dialTimeout(d, opts, dialOk)
    \/ \E d \in Dials : \E res \in FactoryResults(d) : factoryReturn(d, res)
    \/ \E d \in Dials : dialResult(d)
    \/ \E d \in Dials : dialTimer(d)

DialSpec == Init /\ [][DialNext]_vars

\* ------------------------------------------------------------------ claims
InPending(c) == c \in Range(pending)
Signalled(c) == signals[c] >= 1
GoReturned(c) == cpc[c] \in {"ret", "await", "cancel", "returned"}
TerminateRan == rpc \in {"termLoop", "exited"}
CloseCalled == closeRets # <<>>

\* C1: no call is signalled twice on Done, and at most one of the outcomes
\* {reply by the reader, error by the reader, error from terminateCalls,
\* error from send / registerCall failure, removal by cancellation} applies
\* to a call.
C1_OneOutcome ==
    \A c \in Calls : signals[c] <= 1 /\ Cardinality(outcome[c]) <= 1

\* The part of C1 about the Done channel alone: no call is signalled twice.
SignalledAtMostOnce == \A c \in Calls : signals[c] <= 1

\* C3: with the state mutex free, a call is in pending iff it was given a
\* sequence id and was neither completed nor removed by cancellation.
C3_PendingIff ==
    mu = Free =>
        \A c \in Calls : InPending(c) <=> (cseq[c] # 0 /\ outcome[c] = {})

\* C4: the ids registerCall assigns are 1, 2, 3, ... in this order, never 0
\* and never one twice, and pending holds each call under its own id.
C4_SeqIds ==
    /\ \A i \in DOMAIN assigned : assigned[i] = i
    /\ seq = Len(assigned) + 1
    /\ \A s \in DOMAIN pending : s \in 1..Len(assigned) /\ cseq[pending[s]] = s
    /\ \A c1, c2 \in Calls : (c1 # c2 /\ cseq[c1] # 0) => cseq[c1] # cseq[c2]

\* C4 witness: a call was removed by cancellation and a later call is pending
\* under the next id.
C4_Witness ==
    \E c1, c2 \in Calls :
        /\ "cancelled" \in outcome[c1]
        /\ InPending(c2)
        /\ cseq[c2] = cseq[c1] + 1

\* C5: IsAvailable is false exactly when Close has been called or
\* terminateCalls has run, and once false it is never true again.
C5_Available ==
    /\ [](mu = Free => (~IsAvailable <=> (CloseCalled \/ TerminateRan)))
    /\ [][~IsAvailable => ~IsAvailable']_vars

\* C5 witness: the reader's terminal error alone made the client unavailable.
C5_Witness == mu = Free /\ ~IsAvailable /\ ~CloseCalled /\ rpc = "exited"

\* C6: the first Close sets closing and closes the codec; every later Close
\* returns "connection is closed", closes nothing and changes no client field.
CloseStep == Len(closeRets') = Len(closeRets) + 1
C6_CloseOnce ==
    /\ [](codecCloses <= 1)
    /\ [][CloseStep =>
            IF closeRets = <<>>
            THEN /\ ~closing /\ closing'
                 /\ codecClosed'
                 /\ codecCloses' = codecCloses + 1
            ELSE /\ closeRets'[Len(closeRets')] = ErrClosed
                 /\ UNCHANGED <<seq, pending, closing, shutdown, codecClosed,
                                codecCloses>>]_vars

\* C6 witness: Close was called a second time and returned the error.
C6_Witness == Len(closeRets) = 2 /\ closeRets[2] = ErrClosed /\ codecCloses = 1

\* C7: a registerCall that runs once closing or shutdown is set fails with
\* "connection is closed" and changes neither pending nor seq; the call is
\* never written to the stream and, when Go has returned, was signalled once.
RegisterStep(c) == cpc[c] = "reg" /\ cpc'[c] # "reg"
C7_ClosedRegister ==
    /\ [][\A c \in Calls :
            (RegisterStep(c) /\ (closing \/ shutdown)) =>
                /\ cerr'[c] = ErrClosed
                /\ cseq'[c] = 0
                /\ UNCHANGED <<pending, seq, outbound>>]_vars
    /\ [](\A c \in Calls :
            "registerFailed" \in outcome[c] =>
                /\ cerr[c] = ErrClosed
                /\ ~InPending(c)
                /\ \A i \in DOMAIN outbound : outbound[i].call # c
                /\ signals[c] <= 1
                /\ GoReturned(c) => signals[c] = 1
                /\ callRet[c] \in {NotReturned, ErrCallFailed, ErrClosed})

\* C7 witness: a Go made after Close has returned, signalled once.
C7_Witness ==
    \E c \in Calls :
        /\ closing
        /\ "registerFailed" \in outcome[c]
        /\ GoReturned(c)
        /\ signals[c] = 1
        /\ callRet[c] = ErrClosed

\* C8: the reader hands a response only to the call registered under the
\* response's sequence id: a reply is the reply to that call's own argument
\* and comes with no error, an error is the header's or the body's.
C8_Correlation ==
    /\ rcall # Nil => cseq[rcall] = rh.seq
    /\ \A c \in Calls :
        /\ creply[c] # NoReply => creply[c] = Method(cargs[c])
        /\ ("readerReply" \in outcome[c] /\ Signalled(c)) =>
               creply[c] = Method(cargs[c]) /\ cerr[c] = NoErr
        /\ ("readerError" \in outcome[c] /\ Signalled(c)) =>
               cerr[c] \in {ErrServer, ErrReadingBody} /\ creply[c] = NoReply

\* C8 witness: the second request was answered first; its call has its own
\* reply while the first call is still pending.
C8_Witness ==
    \E c1, c2 \in Calls :
        /\ cseq[c1] # 0 /\ cseq[c1] < cseq[c2]
        /\ InPending(c1)
        /\ "readerReply" \in outcome[c2] /\ Signalled(c2)
        /\ creply[c2] = Method(cargs[c2])

\* C9: a cancelled Call returns "call failed" and its call is out of pending;
\* a response that comes for it later finds no pending call, its body is
\* discarded without any completion, and the reader goes on reading.
C9_Cancel ==
    /\ [](\A c \in Calls :
            /\ (mu = Free /\ callRet[c] = ErrCallFailed) => ~InPending(c)
            /\ (rpc = "readBody" /\ "cancelled" \in outcome[c]
                    /\ rh.seq = cseq[c]) => rcall = Nil)
    /\ [][\A c \in Calls :
            (cpc[c] = "cancel" /\ cpc'[c] # "cancel") =>
                callRet'[c] = ErrCallFailed]_vars
    /\ [][(rpc = "readBody" /\ rcall = Nil /\ rpc' # "readBody") =>
            /\ UNCHANGED <<signals, chans, creply, cerr, callRet>>
            /\ rerr' = NoErr => rpc' = "readHeader"]_vars

\* C9 witness: after the late response of a cancelled call was discarded, the
\* reader is serving the response of another call.
C9_Witness ==
    /\ lateDrop
    /\ rpc = "readBody"
    /\ rcall # Nil
    /\ \E c \in Calls : callRet[c] = ErrCallFailed /\ "cancelled" \in outcome[c]

\* C10: when terminateCalls has run, shutdown is set and every call that was
\* in pending when it took the state mutex has the reader's error and was
\* signalled; every registerCall after it fails.
C10_Terminate ==
    /\ [](rpc = "exited" =>
            /\ shutdown
            /\ \A c \in termSnap : cerr[c] = rerr /\ signals[c] = 1)
    /\ [](TerminateRan => shutdown /\ rerr \in {ErrEOF, ErrBody})
    /\ [][\A c \in Calls :
            (RegisterStep(c) /\ rpc = "exited") =>
                cerr'[c] = ErrClosed /\ cseq'[c] = 0 /\ pending' = pending]_vars

\* C10 witness: the reader stopped without any Close, a pending call got the
\* error, and a Go made afterwards failed at registerCall.
C10_Witness ==
    /\ rpc = "exited"
    /\ ~closing
    /\ termSnap # {}
    /\ \E c \in Calls : "registerFailed" \in outcome[c] /\ c \notin termSnap

\* What obliges the client to complete call c: Go was called for it, and its
\* sequence id was answered, or the codec is closed (by Close or by a failed
\* Write), or the reader has stopped on a stream error.
Answered(c) ==
    /\ cseq[c] # 0
    /\ rcall = c \/ \E i \in DOMAIN inbound : inbound[i].seq = cseq[c]
Triggered(c) ==
    /\ cpc[c] # "idle"
    /\ \/ Answered(c)
       \/ codecClosed
       \/ rpc \in {"termLock", "termMu", "termLoop", "exited"}

\* C2: under fair scheduling every call started with Go is eventually
\* signalled on its Done channel, once its sequence id was answered, its
\* write failed, the stream failed or Close was called.
C2_Completion == \A c \in Calls : Triggered(c) ~> Signalled(c)

\* --------------------------------------------------- claims on the server
\* The response header frames written for request k.
ResponseHeaders(k) ==
    {i \in DOMAIN respOut : respOut[i].kind = "header" /\ respOut[i].seq = k}

\* C11: on one connection at most one response is ever written, or even
\* attempted, for a sequence id, and the peer gets at most one; once the
\* timeout path has taken a request its worker never reaches sendResponse.
C11_OneResponse ==
    \A k \in Reqs :
        /\ Cardinality(ResponseHeaders(k)) <= 1
        /\ attempts[k] <= 1
        /\ Len(got[k]) <= 1
        /\ hpc[k] \in {"lock", "body", "timedOut"} =>
               wpc[k] \in {"calling", "called"}

\* C11 witness: the timeout response of a request is on the stream,
\* handleRequest has returned, and the method has finished afterwards.
C11_Witness ==
    \E k \in Reqs :
        /\ optHandleTimeout # 0
        /\ hpc[k] = "timedOut"
        /\ wpc[k] = "called"
        /\ \E i \in ResponseHeaders(k) : respOut[i].err = ErrHandleTimeout
        /\ Len(got[k]) = 1

\* The response the peer decodes for a timed-out request.
TimeoutResult == [err |-> ErrHandleTimeout, reply |-> NoReply]
TimeoutPath(k) == hpc[k] \in {"lock", "body", "timedOut"}

\* C12: with HandleTimeout > 0, once the timer case is taken the server
\* writes, holding the send mutex, the header (seq k, the timeout error) and
\* the placeholder body, and the peer's call completes with that error
\* (unless the connection is lost); with HandleTimeout = 0 no timeout
\* response is ever written and handleRequest returns only after the worker
\* signalled called and then sent.
C12_HandleTimeout ==
    /\ [](\A i \in DOMAIN respOut :
            respOut[i].by[1] = "handler" =>
                /\ respOut[i].seq = respOut[i].by[2]
                /\ respOut[i].kind = "header" => respOut[i].err = ErrHandleTimeout
                /\ respOut[i].kind = "body" => respOut[i].val = InvalidRequest)
    /\ [][\A k \in Reqs :
            /\ (hpc[k] = "lock" /\ hpc'[k] = "body") =>
                   /\ srvSending = Nobody /\ srvSending' = Handler(k)
                   /\ Len(respOut') = Len(respOut) + 1
            /\ (hpc[k] = "body" /\ hpc'[k] # "body") =>
                   srvSending = Handler(k) /\ srvSending' = Nobody
            /\ (hpc[k] # "returned" /\ hpc'[k] = "returned") =>
                   hpc[k] = "waitSent" /\ wpc[k] = "sent" /\ attempts[k] = 1]_vars
    /\ [](\A k \in Reqs :
            /\ (TimeoutPath(k) /\ got[k] # <<>>) => got[k] = <<TimeoutResult>>
            /\ hpc[k] = "timedOut" =>
                   \/ connClosed
                   \/ \E i \in ResponseHeaders(k) :
                          /\ respOut[i].err = ErrHandleTimeout
                          /\ i < Len(respOut)
                          /\ respOut[i + 1].val = InvalidRequest
            /\ optHandleTimeout = 0 =>
                   /\ ~TimeoutPath(k)
                   /\ hpc[k] = "returned" => wpc[k] = "exited"
                   /\ \A i \in ResponseHeaders(k) :
                          respOut[i].err # ErrHandleTimeout)
    /\ \A k \in Reqs :
          (hpc[k] = "lock") ~> (connClosed \/ got[k] = <<TimeoutResult>>)

\* C12 witness: the timer case was taken while the method was still running,
\* handleRequest has returned and the peer's call has the timeout error.
C12_Witness ==
    \E k \in Reqs :
        /\ hpc[k] = "timedOut"
        /\ wpc[k] = "calling"
        /\ ~connClosed
        /\ got[k] = <<TimeoutResult>>

\* C13: whenever serveCode is about to read a request header on an open
\* connection, the next frame of the stream is a header: the body of every
\* earlier request, resolvable or not, has been consumed.
C13_BodyConsumed ==
    (lpc = "readHeader" /\ ~connClosed /\ lpos < Len(reqIn)) =>
        reqIn[lpos + 1].kind = "header"

\* Every header of stream s is directly followed by the body written with it
\* and every body directly follows its header; only the last frame may be a
\* header without its body.
WellFramed(s) ==
    \A i \in DOMAIN s :
        /\ s[i].kind = "header" =>
               i = Len(s) \/ (s[i + 1].kind = "body" /\ s[i + 1].by = s[i].by)
        /\ s[i].kind = "body" =>
               i > 1 /\ s[i - 1].kind = "header" /\ s[i - 1].by = s[i].by

\* C14: in both directions the stream is a sequence of header/body pairs,
\* each pair from one Write; a header without its body is the last frame and
\* belongs to a Write still holding the send mutex or to one that failed.
\* The peer's decoder never reads a torn pair and every request the server
\* dispatched has the argument sent with its own header.
C14_Framing ==
    /\ WellFramed(reqIn)
    /\ WellFramed(respOut)
    /\ (respOut # <<>> /\ respOut[Len(respOut)].kind = "header") =>
           \/ connClosed
           \/ /\ srvSending = respOut[Len(respOut)].by
              /\ wstate(srvSending) = "body"
    /\ (reqIn # <<>> /\ reqIn[Len(reqIn)].kind = "header") =>
           /\ cliSending = reqIn[Len(reqIn)].seq
           /\ qpc[cliSending] = "body"
    /\ ~torn
    /\ \A k \in Reqs :
          /\ hpc[k] # "none" => req[k].argv \in ArgVals(k)
          /\ \A j \in DOMAIN got[k] :
                got[k][j].reply \in {NoReply} \cup {Method(a) : a \in ArgVals(k)}

\* C14 witness: a worker has written its header and holds the send mutex
\* while the timeout path of another request waits to write.
C14_Witness ==
    \E k1, k2 \in Reqs :
        /\ k1 # k2
        /\ wpc[k1] = "body"
        /\ hpc[k2] = "lock"
        /\ respOut[Len(respOut)].kind = "header"
        /\ qpc[k1] = "sent" /\ qpc[k2] = "sent"

\* ------------------------------------------------- claims on the registry
\* The callers of Register that have returned, for the service name n.
Returned(n) == {p \in Regs : gpc[p] = "done" /\ gsvc[p].name = n}

\* C15: a Register whose service name is already in the registry returns
\* "rpc: service already defined: <name>" and leaves the registry as it is;
\* an entry of the registry never changes; of the Register calls for one
\* name exactly one returns nil, the one whose Service the registry holds.
C15_RegisterOnce ==
    /\ [][\A p \in Regs :
            (gpc[p] = "built" /\ gpc'[p] = "done"
                /\ gsvc[p].name \in DOMAIN serviceMap) =>
                    /\ gret'[p] = ErrDuplicate \o gsvc[p].name
                    /\ serviceMap' = serviceMap]_vars
    /\ [][\A n \in DOMAIN serviceMap :
            n \in DOMAIN serviceMap' /\ serviceMap'[n] = serviceMap[n]]_vars
    /\ [](\A n \in {"F", "G"} :
            Returned(n) # {} =>
                /\ n \in DOMAIN serviceMap
                /\ {p \in Returned(n) : gret[p] = NoErr} = {serviceMap[n].by}
                /\ \A p \in Returned(n) :
                      gret[p] \in {NoErr, ErrDuplicate \o n})

\* C15 witness: of three concurrent Register calls for F the second caller
\* won, the first got the duplicate error and the third has built its
\* Service but not stored it yet.
C15_Witness ==
    /\ \A p \in 1..3 : gsvc[p].name = "F"
    /\ gpc[2] = "done" /\ gret[2] = NoErr
    /\ gpc[1] = "done" /\ gret[1] = "rpc: service already defined: F"
    /\ gpc[3] = "built"
    /\ serviceMap["F"].by = 2

\* C17: NewService puts method i of the receiver type into the method table
\* iff it has the parameters (receiver, arg, reply) and one result, of type
\* error, its arg and reply types are exported or built-in, and its reply
\* parameter is of pointer kind.
C17_RegistrationRule ==
    msvc # NoService =>
        \A i \in DOMAIN mrcvr.methods :
            MethodNames[i] \in DOMAIN msvc.methods <=>
                /\ Len(mrcvr.methods[i].ins) = 3
                /\ Len(mrcvr.methods[i].outs) = 1
                /\ mrcvr.methods[i].outs[1] = ErrorType
                /\ isExportedOrBuiltinType(mrcvr.methods[i].ins[2])
                /\ isExportedOrBuiltinType(mrcvr.methods[i].ins[3])
                /\ mrcvr.methods[i].ins[3].kind = "ptr"

\* ------------------------------------------------- claims on dialTimeout
\* C16: when the timer case is taken (ConnectTimeout > 0, the factory has
\* not delivered) dialTimeout returns a nil client and "rpc client: connect
\* timeout: expect within <d>" and the connection is closed; with
\* ConnectTimeout == 0 it returns only the factory's (client, err), after
\* the factory finished, never a timeout error; whenever it returns an error
\* after the dial succeeded the connection is closed.
C16_DialTimeout ==
    \A d \in Dials :
        /\ dialVia[d] = "timer" =>
               /\ dialOpt[d].ConnectTimeout # 0
               /\ facPc[d] \in {"running", "sending"}
               /\ dialRet[d] =
                      [client |-> Nil,
                       err |-> ErrConnectTimeout(dialOpt[d].ConnectTimeout)]
               /\ dialConn[d] = "closed"
        /\ dialVia[d] = "result" =>
               dialRet[d] = facRes[d] /\ facPc[d] = "exited"
        /\ (dialPc[d] = "returned" /\ dialConn[d] # "none"
                /\ dialOpt[d].ConnectTimeout = 0) =>
               dialVia[d] = "result"
        /\ (dialPc[d] = "returned" /\ dialConn[d] # "none"
                /\ dialRet[d].err # NoErr) =>
               dialConn[d] = "closed"

\* C16 witness: one dialTimeout with the default options timed out while its
\* factory was still running; another, with ConnectTimeout 0, returned the
\* factory's error; both connections are closed.
C16_Witness ==
    \E d1, d2 \in Dials :
        /\ dialVia[d1] = "timer" /\ facPc[d1] = "running"
        /\ dialRet[d1].err = "rpc client: connect timeout: expect within 10s"
        /\ dialConn[d1] = "closed"
        /\ dialOpt[d2].ConnectTimeout = 0 /\ dialVia[d2] = "result"
        /\ dialRet[d2].err = ErrFactory
        /\ dialConn[d2] = "closed"

\* ------------------------------------------- further claims on the client
\* C18: once Client.Call has returned the cancellation error, no step of the
\* reader writes the reply destination of that call.
C18_ReplyAbandoned ==
    [][\A c \in Calls :
          callRet[c] = ErrCallFailed => creply'[c] = creply[c]]_vars

\* ------------------------------------- the life cycle of a server connection
\* The phase of the connection: OPEN while serveCode is in its loop, DRAINING
\* once the loop has exited and serveCode is in wg.Wait(), CLOSED once
\* serveCode has called cc.Close().
phase ==
    IF serveClosed THEN "CLOSED" ELSE IF lpc = "wait" THEN "DRAINING" ELSE "OPEN"

\* The phases a connection in phase p may be in after one step.
phaseNext(p) ==
    IF p = "OPEN" THEN {"OPEN", "DRAINING"}
    ELSE IF p = "DRAINING" THEN {"DRAINING", "CLOSED"}
    ELSE {"CLOSED"}

\* handleRequest k has returned.
handlerReturned(k) == hpc[k] \in {"returned", "timedOut"}

\* C19: a server connection goes OPEN -> DRAINING -> CLOSED only in that
\* order; serveCode closes the codec only after its read loop has exited and
\* every handleRequest it spawned has returned; a handleRequest returns only
\* after a response for its request (the worker's or the timeout error) has
\* been written or attempted; no response is written or attempted on the
\* codec after serveCode has closed it.
C19_Lifecycle ==
    /\ [](/\ serveClosed =>
               /\ lpc = "closed"
               /\ wgCount = 0
               /\ \A k \in Reqs : hpc[k] = "none" \/ handlerReturned(k)
               /\ srvSending = Nobody
           /\ \A k \in Reqs : handlerReturned(k) => attempts[k] >= 1
           /\ lateWrites = 0)
    /\ [][/\ phase' \in phaseNext(phase)
          /\ \A k \in Reqs :
                (~handlerReturned(k) /\ handlerReturned(k)') =>
                    /\ attempts'[k] >= 1
                    /\ srvSending' \notin {Handler(k), Worker(k)}]_vars

\* C19 witness: serveCode has closed the codec after draining two handlers,
\* one that returned after its worker's response and one that returned after
\* the timeout response, whose worker never got to write.
C19_Witness ==
    /\ phase = "CLOSED"
    /\ \E k, j \in Reqs :
          /\ hpc[k] = "returned" /\ wpc[k] = "exited" /\ attempts[k] = 1
          /\ hpc[j] = "timedOut" /\ wpc[j] \in {"calling", "called"}
          /\ attempts[j] = 1

\* ------------------------------------------- the two mutexes of the client
\* The goroutines that take the client's mutexes.
Threads == Calls \cup {Reader}

\* Goroutine t is at a c.mu.Lock() it has not passed: registerCall or
\* removeCall in send, removeCall in Call, c.mu.Lock() in terminateCalls.
waitsMu(t) ==
    IF t = Reader
    THEN rpc = "termMu" /\ mu # Reader
    ELSE cpc[t] \in {"reg", "writeFailed", "cancel"}

\* Goroutine t is in terminateCalls without the send mutex.
waitsSending(t) ==
    t = Reader /\ rpc \in {"termLock", "termMu"} /\ sending # Reader

\* C20: no goroutine of the client acquires the send mutex while it holds the
\* state mutex; when both are held, sending was acquired first; no two
\* goroutines each hold one of the two mutexes and wait for the other.
C20_LockOrder ==
    /\ [](mu # Free => sending = mu)
    /\ [](~ \E a, b \in Threads :
              /\ a # b
              /\ sending = a /\ waitsMu(a)
              /\ mu = b /\ waitsSending(b))
    /\ [][/\ (sending' # sending /\ sending' # Free) => mu # sending'
          /\ (mu' # mu /\ mu' # Free) => sending = mu']_vars

\* C20 witness: the reader is in terminateCalls holding both mutexes, while a
\* cancelled Call waits for the state mutex in removeCall and another call
\* waits in Go for the send mutex.
C20_Witness ==
    /\ sending = Reader /\ mu = Reader /\ rpc = "termLoop"
    /\ \E c, d \in Calls : cpc[c] = "cancel" /\ cpc[d] = "idle"

\* ------------------------------------------------- a failed Write in send
\* Call c is in send between registerCall and the end of the Write handling.
inSendAfterRegister(c) == cpc[c] \in {"write", "writeBody", "writeFailed"}

\* The step is the removeCall(seqId) of call c after its failed Write, with
\* what send does on its result.
sendRemoveStep(c) == cpc[c] = "writeFailed" /\ cpc'[c] # "writeFailed"

\* C21: when Write fails in send, the call is removed from pending and
\* completed with the write error exactly when it is still in pending; when
\* the reader has removed it already, send touches no call's Error and no
\* Done channel; terminateCalls does not run between registerCall and this
\* removal, send holding the send mutex throughout.
C21_WriteFailure ==
    /\ [](\A c \in Calls :
              inSendAfterRegister(c) =>
                  /\ sending = c
                  /\ rpc \notin {"termMu", "termLoop", "exited"}
                  /\ ~shutdown
                  /\ "terminated" \notin outcome[c])
    /\ [](\A c \in Calls :
              "sendFailed" \in outcome[c] =>
                  /\ outcome[c] = {"sendFailed"}
                  /\ cerr[c] = ErrWrite
                  /\ ~InPending(c)
                  /\ signals[c] <= 1
                  /\ cpc[c] = "doneWait" => sending = c /\ signals[c] = 0
                  /\ GoReturned(c) => signals[c] = 1)
    /\ [][\A c \in Calls :
              sendRemoveStep(c) =>
                  IF InPending(c)
                  THEN /\ ~InPending(c)'
                       /\ cerr'[c] = ErrWrite
                       /\ "sendFailed" \in outcome'[c]
                       /\ cpc'[c] = "doneWait"
                       /\ \A d \in Calls \ {c} : cerr'[d] = cerr[d]
                  ELSE /\ pending' = pending
                       /\ cerr' = cerr
                       /\ signals' = signals
                       /\ chans' = chans
                       /\ outcome' = outcome
                       /\ sending' = Free]_vars

\* C21 witness: send has returned for two calls whose Write failed: the
\* first, written in part, had been answered and removed by the reader and
\* was left alone by send; the second was still pending and was completed
\* with the write error.
C21_Witness ==
    \E c, d \in Calls :
        /\ cpc[c] \in {"await", "ret", "returned"}
        /\ \E i \in DOMAIN outbound :
               outbound[i].call = c /\ ~outbound[i].full
        /\ outcome[c] = {"readerError"}
        /\ cpc[d] \in {"await", "ret", "returned"}
        /\ outcome[d] = {"sendFailed"} /\ cerr[d] = ErrWrite
        /\ signals[d] = 1

\* ------------------------------------------- the order of request frames
\* C22: the request frames of one client are on the stream in strictly
\* increasing order of their sequence ids: of two requests written, the one
\* written first has the smaller SeqId.
C22_FrameOrder ==
    \A i, j \in DOMAIN outbound :
        i < j => outbound[i].seq < outbound[j].seq

\* C22 witness: two goroutines have written their requests, the second while
\* the first call was still outstanding; the frames carry ids 1 and 2.
C22_Witness ==
    /\ Len(outbound) = 2
    /\ outbound[1].call # outbound[2].call
    /\ outbound[1].seq = FirstSeq /\ outbound[2].seq = FirstSeq + 1
    /\ InPending(outbound[1].call) /\ InPending(outbound[2].call)

\* ------------------------------------------------ delivering a completion
\* Goroutine t is inside call.done(), at call.Done <- call, and the channel
\* has no room: in send, in receive, in terminateCalls.
blockedInDone(t) ==
    IF t = Reader
    THEN \/ rpc = "done" /\ ~hasRoom(rcall)
         \/ rpc = "termLoop" /\ termCur # Nil /\ ~hasRoom(termCur)
    ELSE cpc[t] = "doneWait" /\ ~hasRoom(t)

\* C23: delivering a completion never stalls the client: no goroutine waits
\* in call.done() for room in a Done channel, so none is blocked there while
\* it holds the send mutex or the state mutex, and the reader is not kept
\* from serving other calls.
C23_NoStall == \A t \in Threads : ~blockedInDone(t)

\* ------------------------------------------------- the worker goroutines
\* C24: every worker goroutine started by handleRequest terminates once its
\* method has returned, also when the handle timeout fired first and
\* handleRequest has returned: it is not left blocked on called or on sent.
C24_WorkerTerminates ==
    \A k \in Reqs : (wpc[k] = "called") ~> (wpc[k] = "exited")

====
